---- MODULE Spec2Model ----
(***************************************************************************)
(* Invisible cloak: the frame segmenter (build_red_mask), the compositor   *)
(* and the capture loop of invisible_cloak.py, and the background acquirer *)
(* of background.py.                                                       *)
(*                                                                         *)
(* An image is a record [h, w, px] with px[r][c] the cell at row r and     *)
(* column c (1-based); a colour cell is a triple of 8-bit channel values,  *)
(* a mask cell one 8-bit value (0 or 255).                                 *)
(***************************************************************************)
EXTENDS Integers, Sequences, FiniteSets

VARIABLES
    \* ---- one frame through the per-frame pipeline (invisible_cloak.py 96-110)
    stage,        \* position in the pipeline: "read", "converted", "masked", "composited"
    frame,        \* the mirrored live frame (BGR)
    bg,           \* the background image (BGR)
    hsv,          \* cv2.cvtColor(frame, COLOR_BGR2HSV)
    cloak_mask,   \* build_red_mask(hsv)
    final,        \* the composited frame
    block,        \* the block a synthetic frame was built from
    colourIx,     \* the index of the colours it was built from
    \* ---- the background acquirer (background.py main)
    bpc,          \* "loop" (41-55), "sampling" (59-65), "Stopped" (78-79), "idle"
    nframes,      \* args.frames
    attempt,      \* iterations of `for _ in range(args.frames)` begun
    frames,       \* the list `frames`
    readLog,      \* what cap.read() returned at line 60 since the last trigger
    outFile,      \* the array handed to cv2.imwrite(args.output, ...), or NoImage
    failures,     \* times "Failed to capture frames" was reported
    triggers,     \* times SPACE started a capture
    lastRead,     \* the outcome of the last cap.read() at line 42
    bcap,         \* the camera of the acquirer: "open" or "released"
    \* ---- the compositing session (invisible_cloak.py main); an image is
    \* kept here as its shape and what it was made from
    pc,           \* "Running" (90-132), "Stopped" (134-138), "Aborted", "idle"
    save,         \* whether args.save names a file
    bg_shape,     \* bg.shape[:2], <<height, width>>
    bg_resizes,   \* times bg was replaced by a resized copy
    writer,       \* "None", "Open" or "Released"
    writer_size,  \* the (width, height) the writer was created with
    written,      \* the frames handed to writer.write, in order
    cap,          \* the camera: "open" or "released"
    pending,      \* the key waiting for the next cv2.waitKey, KeyNone if none
    snapshot_idx, \* snapshot_idx
    snapshots,    \* the snapshot files written
    ticks,        \* iterations of the loop begun
    okTicks,      \* iterations that read a frame and ran to their end
    lastOk,       \* what the last cap.read() at line 91 returned as ok
    polled,       \* whether the last iteration called cv2.waitKey
    shapesSeen,   \* the shapes of the frames the camera has delivered
    comp,         \* the shapes at the last compositing (107-110), or NoComp
    last_final,   \* the last composited frame `final`, or NoFrame
    shown         \* the last image given to cv2.imshow, or NoFrame

pipeVars == <<stage, frame, bg, hsv, cloak_mask, final, block, colourIx>>
acqVars == <<bpc, nframes, attempt, frames, readLog, outFile, failures, triggers,
             lastRead, bcap>>
sessVars == <<pc, save, bg_shape, bg_resizes, writer, writer_size, written, cap,
              pending, snapshot_idx, snapshots, ticks, okTicks, lastOk, polled,
              shapesSeen, comp, last_final, shown>>
vars == <<pipeVars, acqVars, sessVars>>

-----------------------------------------------------------------------------
(* Bounds of the model *)

\* frames of the segmenter specification are MaxH rows by MaxW columns
MaxH == 7
MaxW == 7

-----------------------------------------------------------------------------
(* Images *)

NoImage == [h |-> 0, w |-> 0, px |-> <<>>]

MkImage(h, w, F(_, _)) ==
    [h |-> h, w |-> w, px |-> [r \in 1..h |-> [c \in 1..w |-> F(r, c)]]]

SameShape(a, b) == a.h = b.h /\ a.w = b.w

SetMin(S) == CHOOSE x \in S : \A y \in S : x <= y
SetMax(S) == CHOOSE x \in S : \A y \in S : x >= y

Lo(a, b) == IF a < b THEN a ELSE b
Hi(a, b) == IF a > b THEN a ELSE b

\* 8-bit bitwise operations, bit by bit
RECURSIVE BitOrN(_, _, _)
BitOrN(a, b, n) ==
    IF n = 0 THEN 0
    ELSE Hi(a % 2, b % 2) + 2 * BitOrN(a \div 2, b \div 2, n - 1)

RECURSIVE BitAndN(_, _, _)
BitAndN(a, b, n) ==
    IF n = 0 THEN 0
    ELSE Lo(a % 2, b % 2) + 2 * BitAndN(a \div 2, b \div 2, n - 1)

BitOr8(a, b) == BitOrN(a, b, 8)
BitAnd8(a, b) == BitAndN(a, b, 8)
BitNot8(a) == 255 - a

-----------------------------------------------------------------------------
(* build_red_mask: invisible_cloak.py 28-58 *)

lower_red1 == <<0, 120, 70>>
upper_red1 == <<10, 255, 255>>
lower_red2 == <<170, 120, 70>>
upper_red2 == <<180, 255, 255>>
lower_orange == <<10, 100, 70>>
upper_orange == <<25, 255, 255>>

\* a mutant of InRangeCell: only the hue channel is compared
InRangeCellHueOnly(p, lower, upper) ==
    IF lower[1] <= p[1] /\ p[1] <= upper[1] THEN 255 ELSE 0

\* cv2.inRange on one cell: 255 when every channel lies within its bounds,
\* both inclusive, else 0
InRangeCell(p, lower, upper) ==
    IF \A k \in 1..3 : lower[k] <= p[k] /\ p[k] <= upper[k] THEN 255 ELSE 0

inRange(img, lower, upper) ==
    LET F(r, c) == InRangeCell(img.px[r][c], lower, upper)
    IN  MkImage(img.h, img.w, F)

\* mask1 | mask2 | mask3, cell by cell
MaskOr(a, b) ==
    LET F(r, c) == BitOr8(a.px[r][c], b.px[r][c])
    IN  MkImage(a.h, a.w, F)

\* kernel = np.ones((3, 3)): the anchor is the centre, so the kernel reaches
\* KernelRadius cells each way
KernelRadius == 1

\* the cells of the 3x3 neighbourhood of (r, c) that lie inside the image;
\* with the default border value of erode and dilate the cells outside the
\* image take no part in the minimum or the maximum
Neighbourhood(m, r, c) ==
    { m.px[rr][cc] :
        rr \in Hi(1, r - KernelRadius)..Lo(m.h, r + KernelRadius),
        cc \in Hi(1, c - KernelRadius)..Lo(m.w, c + KernelRadius) }

\* one pass of cv2.erode with the 3x3 kernel
Erode1(m) ==
    LET F(r, c) == SetMin(Neighbourhood(m, r, c))
    IN  MkImage(m.h, m.w, F)

\* one pass of cv2.dilate with the 3x3 kernel
Dilate1(m) ==
    LET F(r, c) == SetMax(Neighbourhood(m, r, c))
    IN  MkImage(m.h, m.w, F)

RECURSIVE erode(_, _)
erode(m, iterations) ==
    IF iterations = 0 THEN m ELSE erode(Erode1(m), iterations - 1)

RECURSIVE dilate(_, _)
dilate(m, iterations) ==
    IF iterations = 0 THEN m ELSE dilate(Dilate1(m), iterations - 1)

\* a mutant of morphologyExOpen: the erosions without the dilations
\* (MORPH_ERODE in place of MORPH_OPEN)
morphologyExErodeOnly(m, iterations) == erode(m, iterations)

\* cv2.morphologyEx(mask, cv2.MORPH_OPEN, kernel, iterations): all the
\* erosions, then all the dilations
morphologyExOpen(m, iterations) == dilate(erode(m, iterations), iterations)

OpenIterations == 2
DilateIterations == 1

build_red_mask(img) ==
    LET mask1 == inRange(img, lower_red1, upper_red1)
        mask2 == inRange(img, lower_red2, upper_red2)
        mask3 == inRange(img, lower_orange, upper_orange)
        mask  == MaskOr(MaskOr(mask1, mask2), mask3)
        opened == morphologyExOpen(mask, OpenIterations)
    IN  dilate(opened, DilateIterations)

-----------------------------------------------------------------------------
(* cv2.cvtColor(frame, cv2.COLOR_BGR2HSV) on 8-bit cells: invisible_cloak.py *)
(* 102.  V = max(B, G, R), S = 255 * (V - min) / V, H = half the hue angle   *)
(* in degrees (0..180), computed in 12-bit fixed point with rounded division *)
(* tables.                                                                   *)

hsv_shift == 12

Pow2(n) == IF n = 0 THEN 1 ELSE 2 * (IF n = 1 THEN 1 ELSE 2 ^ (n - 1))

\* n / d rounded to the nearest integer, halves to the even one (n >= 0, d > 0)
RoundDiv(n, d) ==
    LET q == n \div d
        rem == n % d
    IN  IF 2 * rem < d THEN q
        ELSE IF 2 * rem > d THEN q + 1
        ELSE IF q % 2 = 0 THEN q ELSE q + 1

sdiv_table(i) == IF i = 0 THEN 0 ELSE RoundDiv(255 * Pow2(hsv_shift), i)
hdiv_table180(i) == IF i = 0 THEN 0 ELSE RoundDiv(180 * Pow2(hsv_shift), 6 * i)

\* x >> hsv_shift after adding half a unit: an arithmetic shift, so the floor
FixRound(x) == (x + Pow2(hsv_shift - 1)) \div Pow2(hsv_shift)

BGR2HSVCell(p) ==
    LET b == p[1]
        g == p[2]
        r == p[3]
        v == Hi(b, Hi(g, r))
        vmin == Lo(b, Lo(g, r))
        diff == v - vmin
        s == FixRound(diff * sdiv_table(v))
        hraw == IF v = r THEN g - b
                ELSE IF v = g THEN b - r + 2 * diff
                ELSE r - g + 4 * diff
        h0 == FixRound(hraw * hdiv_table180(diff))
        h == IF h0 < 0 THEN h0 + 180 ELSE h0
    IN  <<h, s, v>>

cvtColor(img) ==
    LET F(r, c) == BGR2HSVCell(img.px[r][c])
    IN  MkImage(img.h, img.w, F)

-----------------------------------------------------------------------------
(* The compositor: invisible_cloak.py 104-110 *)

\* a mutant of bitwise_not: the mask is used without being inverted
bitwise_not_missing(m) == m

\* cv2.bitwise_not(cloak_mask)
bitwise_not(m) ==
    LET F(r, c) == BitNot8(m.px[r][c])
    IN  MkImage(m.h, m.w, F)

\* cv2.bitwise_and(src, src, mask=m): the cell ANDed with itself where the
\* mask cell is not zero, a zero cell elsewhere (the destination is new)
bitwise_and_masked(src, m) ==
    LET F(r, c) ==
            IF m.px[r][c] # 0
            THEN [k \in 1..3 |-> BitAnd8(src.px[r][c][k], src.px[r][c][k])]
            ELSE <<0, 0, 0>>
    IN  MkImage(src.h, src.w, F)

\* cv2.add on 8-bit cells: the sum of each channel, saturated at 255
add(a, b) ==
    LET F(r, c) == [k \in 1..3 |-> Lo(255, a.px[r][c][k] + b.px[r][c][k])]
    IN  MkImage(a.h, a.w, F)

composite(frm, mask, bgimg) ==
    LET inv_mask == bitwise_not(mask)
        background_part == bitwise_and_masked(bgimg, mask)
        current_part == bitwise_and_masked(frm, inv_mask)
    IN  add(background_part, current_part)

-----------------------------------------------------------------------------
(* Synthetic frames: a solid rectangular block of one colour on a ground of *)
(* other colours.                                                           *)

\* HSV colours inside a configured interval: the corners of the intervals and
\* a colour only the orange interval holds (saturation between 100 and 120)
InPalette ==
    << <<0, 120, 70>>, <<180, 255, 255>>, <<25, 100, 70>>, <<10, 110, 200>> >>

\* HSV colours just outside every interval, by hue, saturation or value
OutPalette ==
    << <<26, 255, 255>>, <<169, 255, 255>>, <<9, 119, 255>>,
       <<10, 99, 200>>, <<0, 255, 69>> >>

\* BGR colours of a cloak: red, orange, a darker red, a red-orange
CloakBGR ==
    << <<0, 0, 255>>, <<0, 128, 255>>, <<20, 20, 200>>, <<10, 60, 240>> >>

\* BGR colours of a scene: grey, blue, pink, a red too dark to count, white
SceneBGR ==
    << <<128, 128, 128>>, <<255, 0, 0>>, <<180, 180, 255>>,
       <<0, 0, 60>>, <<255, 255, 255>> >>

\* the colour of a palette at index i, wrapping round
Pick(palette, i) == palette[((i - 1) % Len(palette)) + 1]

\* the ground alternates between two neighbouring colours of a palette
GroundColour(palette, o, r, c) ==
    IF (r + c) % 2 = 0 THEN Pick(palette, o) ELSE Pick(palette, o + 1)

\* a block of bh rows and bw columns whose top left cell is (r0, c0);
\* bh = 0 and bw = 0 is the frame without a block
Blocks(h, w) ==
    { b \in [r0 : 1..h, c0 : 1..w, bh : 0..h, bw : 0..w] :
        /\ b.r0 + b.bh - 1 <= h
        /\ b.c0 + b.bw - 1 <= w
        /\ (b.bh = 0 \/ b.bw = 0) => (b.bh = 0 /\ b.bw = 0 /\ b.r0 = 1 /\ b.c0 = 1) }

InBlock(b, r, c) ==
    /\ b.r0 <= r /\ r < b.r0 + b.bh
    /\ b.c0 <= c /\ c < b.c0 + b.bw

BlockFrame(h, w, b, colour, palette, o) ==
    LET F(r, c) ==
            IF InBlock(b, r, c) THEN colour ELSE GroundColour(palette, o, r, c)
    IN  MkImage(h, w, F)

\* a background whose cells differ from place to place
SceneImage(h, w, o) ==
    LET F(r, c) == <<(r * 37 + o * 11) % 256, (c * 53) % 256, (o * 90) % 256>>
    IN  MkImage(h, w, F)

\* the parts of the state a specification does not use stay idle
PipeIdle ==
    /\ stage = "idle"
    /\ frame = NoImage
    /\ bg = NoImage
    /\ hsv = NoImage
    /\ cloak_mask = NoImage
    /\ final = NoImage
    /\ block = [r0 |-> 1, c0 |-> 1, bh |-> 0, bw |-> 0]
    /\ colourIx = 0

AcqIdle ==
    /\ bpc = "idle"
    /\ nframes = 0
    /\ attempt = 0
    /\ frames = <<>>
    /\ readLog = <<>>
    /\ outFile = NoImage
    /\ failures = 0
    /\ triggers = 0
    /\ lastRead = "none"
    /\ bcap = "released"

NoFrame == [shape |-> <<0, 0>>, src |-> 0, mirrored |-> FALSE, text |-> FALSE]
NoComp == [bg |-> <<0, 0>>, frame |-> <<0, 0>>, final |-> <<0, 0>>]

\* cv2.waitKey(1) & 0xFF: ESC, SPACE, 'q', 's', and 255 when no key is down
KeyESC == 27
KeySPACE == 32
KeyQ == 113
KeyS == 115
KeyNone == 255

SessIdle ==
    /\ pc = "idle"
    /\ save = FALSE
    /\ bg_shape = <<0, 0>>
    /\ bg_resizes = 0
    /\ writer = "None"
    /\ writer_size = <<0, 0>>
    /\ written = <<>>
    /\ cap = "released"
    /\ pending = KeyNone
    /\ snapshot_idx = 1
    /\ snapshots = <<>>
    /\ ticks = 0
    /\ okTicks = 0
    /\ lastOk = FALSE
    /\ polled = "none"
    /\ shapesSeen = {}
    /\ comp = NoComp
    /\ last_final = NoFrame
    /\ shown = NoFrame

-----------------------------------------------------------------------------
(* The segmenter alone, on HSV frames *)

\* the block's colour: one of InPalette for the first indices, and past them
\* one of OutPalette that the ground at that index does not use
BlockColourHSV(i) ==
    IF i <= Len(OutPalette) THEN Pick(InPalette, i) ELSE Pick(OutPalette, i + 2)

InitMask ==
    /\ \E b \in Blocks(MaxH, MaxW), i \in 1..(2 * Len(OutPalette)) :
            /\ block = b
            /\ colourIx = i
            /\ hsv = BlockFrame(MaxH, MaxW, b, BlockColourHSV(i), OutPalette, i)
    /\ stage = "converted"
    /\ frame = NoImage
    /\ bg = NoImage
    /\ cloak_mask = NoImage
    /\ final = NoImage
    /\ AcqIdle
    /\ SessIdle

\* cloak_mask = build_red_mask(hsv), invisible_cloak.py 103
Segment ==
    /\ stage = "converted"
    /\ cloak_mask' = build_red_mask(hsv)
    /\ stage' = "masked"
    /\ UNCHANGED <<frame, bg, hsv, final, block, colourIx>>
    /\ UNCHANGED <<acqVars, sessVars>>

NextMask == Segment

SpecMask == InitMask /\ [][NextMask]_vars

-----------------------------------------------------------------------------
(* One frame through conversion, segmentation and compositing *)

InitPipe ==
    /\ \E b \in Blocks(MaxH, MaxW), i \in 1..Len(SceneBGR) :
            /\ block = b
            /\ colourIx = i
            /\ frame = BlockFrame(MaxH, MaxW, b, Pick(CloakBGR, i), SceneBGR, i)
            /\ bg = SceneImage(MaxH, MaxW, i)
    /\ stage = "read"
    /\ hsv = NoImage
    /\ cloak_mask = NoImage
    /\ final = NoImage
    /\ AcqIdle
    /\ SessIdle

\* invisible_cloak.py 102-110 on a frame and a background of its size
ProcessFrame ==
    /\ stage = "read"
    /\ \E h \in {cvtColor(frame)} :
         \E m \in {build_red_mask(h)} :
            /\ hsv' = h
            /\ cloak_mask' = m
            /\ final' = composite(frame, m, bg)
    /\ stage' = "composited"
    /\ UNCHANGED <<frame, bg, block, colourIx>>
    /\ UNCHANGED <<acqVars, sessVars>>

NextPipe == ProcessFrame

SpecPipe == InitPipe /\ [][NextPipe]_vars

-----------------------------------------------------------------------------
(* The background acquirer: background.py 41-79 *)

\* the most frames a capture is asked to sample, and the most captures
MaxFrames == 4
MaxTriggers == 2

\* the frames the camera of the acquirer delivers: a scene, the scene with one
\* cell sharply off, and another scene
SceneA == [h |-> 1, w |-> 2, px |-> << << <<10, 20, 30>>, <<41, 50, 60>> >> >>]
SceneB == [h |-> 1, w |-> 2, px |-> << << <<10, 20, 30>>, <<250, 5, 60>> >> >>]
SceneC == [h |-> 1, w |-> 2, px |-> << << <<90, 81, 70>>, <<100, 110, 121>> >> >>]
SourceFrames == {SceneA, SceneB, SceneC}

\* cap.read(): (False, None) or (True, frame)
Reads == {[ok |-> FALSE, img |-> NoImage]} \cup {[ok |-> TRUE, img |-> f] : f \in SourceFrames}

\* cv2.flip(f, 1): mirrored about the vertical axis
flip(f) ==
    LET F(r, c) == f.px[r][f.w + 1 - c]
    IN  MkImage(f.h, f.w, F)

\* the k-th smallest of a sequence of numbers
OrderStat(xs, k) ==
    CHOOSE v \in {xs[i] : i \in 1..Len(xs)} :
        /\ Cardinality({i \in 1..Len(xs) : xs[i] < v}) < k
        /\ Cardinality({i \in 1..Len(xs) : xs[i] <= v}) >= k

RECURSIVE SeqSum(_)
SeqSum(xs) == IF xs = <<>> THEN 0 ELSE Head(xs) + SeqSum(Tail(xs))

\* a mutant of np_median2: twice the arithmetic mean, rounded down
np_mean2(xs) == (2 * SeqSum(xs)) \div Len(xs)

\* np.median of a sequence of numbers, doubled so that it stays an integer:
\* the middle value, or the mean of the two middle values
np_median2(xs) ==
    LET n == Len(xs)
    IN  IF n % 2 = 1 THEN 2 * OrderStat(xs, (n + 1) \div 2)
        ELSE OrderStat(xs, n \div 2) + OrderStat(xs, n \div 2 + 1)

\* .astype(np.uint8) of a non-negative float given doubled: the fraction is cut
astype_uint8(x2) == (x2 \div 2) % 256

\* np.median(np.stack(frames, axis=0), axis=0).astype(np.uint8)
MedianImage(fs) ==
    LET F(r, c) ==
            [k \in 1..3 |->
                astype_uint8(np_median2([i \in 1..Len(fs) |-> fs[i].px[r][c][k]]))]
    IN  MkImage(fs[1].h, fs[1].w, F)

InitAcq ==
    /\ PipeIdle
    /\ SessIdle
    /\ bpc = "loop"
    /\ nframes \in 0..MaxFrames
    /\ attempt = 0
    /\ frames = <<>>
    /\ readLog = <<>>
    /\ outFile = NoImage
    /\ failures = 0
    /\ triggers = 0
    /\ lastRead = "none"
    /\ bcap = "open"

\* lines 42-44: the read fails and the loop goes round again
OuterReadFails ==
    /\ bpc = "loop"
    /\ lastRead' = "failed"
    /\ UNCHANGED <<bpc, nframes, attempt, frames, readLog, outFile, failures,
                   triggers, bcap>>
    /\ UNCHANGED <<pipeVars, sessVars>>

\* where `continue` at line 69 leads after an empty capture: a mutant breaks
AfterEmptyCaptureBreak == "Stopped"

AfterEmptyCapture == "loop"

\* lines 42-58: a frame is read, mirrored and shown, and the key is looked at
OuterIteration(key) ==
    /\ bpc = "loop"
    /\ lastRead' = "ok"
    /\ IF key = KeyESC
       THEN /\ bpc' = "Stopped"
            /\ bcap' = "released"
            /\ UNCHANGED <<attempt, frames, readLog, triggers>>
       ELSE IF key = KeySPACE
       THEN /\ triggers < MaxTriggers
            /\ bpc' = "sampling"
            /\ frames' = <<>>
            /\ attempt' = 0
            /\ readLog' = <<>>
            /\ triggers' = triggers + 1
            /\ UNCHANGED bcap
       ELSE UNCHANGED <<bpc, bcap, attempt, frames, readLog, triggers>>
    /\ UNCHANGED <<nframes, outFile, failures>>
    /\ UNCHANGED <<pipeVars, sessVars>>

\* a mutant of SampleCounts: a failed read does not use up an iteration
SampleCountsRetry(rd) == rd.ok

\* whether a read at line 60 uses up one of the args.frames iterations
SampleCounts(rd) == TRUE

\* lines 59-65: one iteration of the sampling loop
SampleRead(rd) ==
    /\ bpc = "sampling"
    /\ attempt < nframes
    /\ attempt' = IF SampleCounts(rd) THEN attempt + 1 ELSE attempt
    /\ readLog' = Append(readLog, rd)
    /\ frames' = IF rd.ok THEN Append(frames, flip(rd.img)) ELSE frames
    /\ UNCHANGED <<bpc, nframes, outFile, failures, triggers, lastRead, bcap>>
    /\ UNCHANGED <<pipeVars, sessVars>>

\* lines 67-76: the loop is over; no frame is a failure, else the median is
\* written and the acquirer ends
SampleDone ==
    /\ bpc = "sampling"
    /\ attempt >= nframes
    /\ IF frames = <<>>
       THEN /\ failures' = failures + 1
            /\ bpc' = AfterEmptyCapture
            /\ bcap' = IF AfterEmptyCapture = "Stopped" THEN "released" ELSE bcap
            /\ UNCHANGED outFile
       ELSE /\ outFile' = MedianImage(frames)
            /\ bpc' = "Stopped"
            /\ bcap' = "released"
            /\ UNCHANGED failures
    /\ UNCHANGED <<nframes, attempt, frames, readLog, triggers, lastRead>>
    /\ UNCHANGED <<pipeVars, sessVars>>

NextAcq ==
    \/ OuterReadFails
    \/ \E key \in {KeyESC, KeySPACE, KeyQ, KeyNone} : OuterIteration(key)
    \/ \E rd \in Reads : SampleRead(rd)
    \/ SampleDone

SpecAcq == InitAcq /\ [][NextAcq]_vars

-----------------------------------------------------------------------------
(* The compositing session: invisible_cloak.py 82-138.  The cells of the    *)
(* images play no part in the control flow, so an image is kept as a record *)
(* [shape, src, mirrored, text]: its <<height, width>>, the number of the   *)
(* iteration whose camera frame it was made from, whether it was mirrored,  *)
(* and whether the help text was drawn on it.                               *)

\* the most iterations of the loop
MaxTicks == 3

\* the shapes the camera delivers and the background file may have
Shapes == { <<1, 2>>, <<2, 1>> }

\* the operations of one iteration that may raise, in the order they run
RaiseAt ==
    [resize |-> 1, cvtColor |-> 2, composite |-> 3, imshow |-> 4,
     VideoWriter |-> 5, write |-> 6, waitKey |-> 7, imwrite |-> 8, none |-> 9]

RaisePoints == DOMAIN RaiseAt

\* a mutant of BgDsize: the size is given as (height, width)
BgDsizeSwapped(shape) == <<shape[1], shape[2]>>

\* the dsize of line 100, (frame.shape[1], frame.shape[0]): (width, height)
BgDsize(shape) == <<shape[2], shape[1]>>

\* the shape of cv2.resize(img, dsize): <<height, width>> of dsize = (width, height)
resize_shape(dsize) == <<dsize[2], dsize[1]>>

\* a mutant of WrittenFrame: the image with the help text is recorded
WrittenFrameOverlay(fin, overlay) == overlay

\* the image line 123 hands to writer.write
WrittenFrame(fin, overlay) == fin

InitSess ==
    /\ PipeIdle
    /\ AcqIdle
    /\ pc = "Running"
    /\ save \in BOOLEAN
    /\ bg_shape \in Shapes
    /\ bg_resizes = 0
    /\ writer = "None"
    /\ writer_size = <<0, 0>>
    /\ written = <<>>
    /\ cap = "open"
    /\ pending = KeyNone
    /\ snapshot_idx = 1
    /\ snapshots = <<>>
    /\ ticks = 0
    /\ okTicks = 0
    /\ lastOk = FALSE
    /\ polled = "none"
    /\ shapesSeen = {}
    /\ comp = NoComp
    /\ last_final = NoFrame
    /\ shown = NoFrame

\* the user presses a key; it waits for the next cv2.waitKey
PressKey(k) ==
    /\ pc = "Running"
    /\ pending = KeyNone
    /\ pending' = k
    /\ UNCHANGED <<pc, save, bg_shape, bg_resizes, writer, writer_size, written,
                   cap, snapshot_idx, snapshots, ticks, okTicks, lastOk, polled,
                   shapesSeen, comp, last_final, shown>>
    /\ UNCHANGED <<pipeVars, acqVars>>

\* lines 91-93: the read fails and `continue` starts the next iteration
TickReadFails ==
    /\ pc = "Running"
    /\ ticks < MaxTicks
    /\ ticks' = ticks + 1
    /\ lastOk' = FALSE
    /\ polled' = "no"
    /\ UNCHANGED <<pc, save, bg_shape, bg_resizes, writer, writer_size, written,
                   cap, pending, snapshot_idx, snapshots, okTicks, shapesSeen,
                   comp, last_final, shown>>
    /\ UNCHANGED <<pipeVars, acqVars>>

\* lines 91-132 on a frame of shape shp, and lines 134-138 when a quit key
\* ends the loop; the operation `raises` (if not "none") raises an error,
\* which leaves main at once
Tick(shp, raises) ==
    LET frm == [shape |-> shp, src |-> ticks + 1, mirrored |-> TRUE, text |-> FALSE]
        mismatch == bg_shape # frm.shape
        at0 == RaiseAt[raises]
        newBg == IF mismatch /\ at0 > RaiseAt.resize
                 THEN resize_shape(BgDsize(frm.shape)) ELSE bg_shape
        \* bitwise_and(bg, bg, mask=cloak_mask) raises when bg and mask differ in size
        at == IF at0 > RaiseAt.composite /\ newBg # frm.shape
              THEN RaiseAt.composite ELSE at0
        fin == frm
        overlay == [fin EXCEPT !.text = TRUE]
        opens == save /\ writer = "None" /\ at > RaiseAt.VideoWriter
        writer1 == IF opens THEN "Open" ELSE writer
        writes == writer1 # "None" /\ at > RaiseAt.write
        key == pending
        quit == at > RaiseAt.waitKey /\ key \in {KeyESC, KeyQ}
        snaps == at > RaiseAt.imwrite /\ key = KeyS
    IN  /\ pc = "Running"
        /\ ticks < MaxTicks
        /\ raises = "resize" => mismatch
        /\ raises = "VideoWriter" => (save /\ writer = "None")
        /\ raises = "write" => (save \/ writer # "None")
        /\ raises = "imwrite" => key = KeyS
        /\ ticks' = ticks + 1
        /\ lastOk' = TRUE
        /\ shapesSeen' = shapesSeen \cup {shp}
        /\ bg_shape' = newBg
        /\ bg_resizes' = IF mismatch /\ at0 > RaiseAt.resize
                         THEN bg_resizes + 1 ELSE bg_resizes
        /\ comp' = IF at0 > RaiseAt.cvtColor
                   THEN [bg |-> newBg, frame |-> frm.shape,
                         final |-> IF at > RaiseAt.composite THEN fin.shape ELSE <<0, 0>>]
                   ELSE comp
        /\ last_final' = IF at > RaiseAt.composite THEN fin ELSE last_final
        /\ shown' = IF at > RaiseAt.imshow THEN overlay ELSE shown
        /\ writer_size' = IF opens THEN <<fin.shape[2], fin.shape[1]>> ELSE writer_size
        /\ written' = IF writes THEN Append(written, WrittenFrame(fin, overlay))
                      ELSE written
        /\ pending' = IF at > RaiseAt.waitKey THEN KeyNone ELSE pending
        /\ polled' = IF at > RaiseAt.waitKey THEN "yes" ELSE "no"
        /\ snapshots' = IF snaps /\ ~quit
                        THEN Append(snapshots, [idx |-> snapshot_idx, img |-> fin])
                        ELSE snapshots
        /\ snapshot_idx' = IF snaps /\ ~quit THEN snapshot_idx + 1 ELSE snapshot_idx
        /\ okTicks' = IF at = RaiseAt.none THEN okTicks + 1 ELSE okTicks
        /\ pc' = IF at < RaiseAt.none THEN "Aborted"
                 ELSE IF quit THEN "Stopped" ELSE "Running"
        /\ cap' = IF at = RaiseAt.none /\ quit THEN "released" ELSE cap
        /\ writer' = IF at = RaiseAt.none /\ quit /\ writer1 # "None"
                     THEN "Released" ELSE writer1
        /\ UNCHANGED save
        /\ UNCHANGED <<pipeVars, acqVars>>

NextSess ==
    \/ \E k \in {KeyESC, KeyQ, KeyS, KeySPACE} : PressKey(k)
    \/ TickReadFails
    \/ \E shp \in Shapes, raises \in RaisePoints : Tick(shp, raises)

SpecSess == InitSess /\ [][NextSess]_vars

-----------------------------------------------------------------------------
(* Properties of the segmenter and the compositor *)

Cells(img) == (1..img.h) \X (1..img.w)

\* the three intervals as the documentation of build_red_mask lists them
ClaimedIntervals ==
    { << <<0, 120, 70>>, <<10, 255, 255>> >>,
      << <<170, 120, 70>>, <<180, 255, 255>> >>,
      << <<10, 100, 70>>, <<25, 255, 255>> >> }

Within(p, iv) == \A k \in 1..3 : iv[1][k] <= p[k] /\ p[k] <= iv[2][k]

OutsideAll(p) == \A iv \in ClaimedIntervals : ~Within(p, iv)

AllFalse(m) == \A rc \in Cells(m) : m.px[rc[1]][rc[2]] = 0

\* the frame is a solid block inside one interval on a ground outside all
SolidBlockFrame ==
    /\ block.bh > 0
    /\ \E iv \in ClaimedIntervals :
          \A rc \in Cells(hsv) :
             InBlock(block, rc[1], rc[2]) => Within(hsv.px[rc[1]][rc[2]], iv)
    /\ \A rc \in Cells(hsv) :
          ~InBlock(block, rc[1], rc[2]) => OutsideAll(hsv.px[rc[1]][rc[2]])

\* the cells of the block that are not on its edge
InInterior(b, r, c) ==
    /\ b.r0 < r /\ r < b.r0 + b.bh - 1
    /\ b.c0 < c /\ c < b.c0 + b.bw - 1

\* the side of the square two 3x3 erosions look at
MinBlock == 2 * OpenIterations * KernelRadius + 1

\* C1: the composited frame has the frame's size, and each of its cells is
\* the background's cell where the mask cell is 255 and the live frame's
\* cell where the mask cell is 0, on all three channels; the mask holds no
\* other value.
C1_HardSelection ==
    stage = "composited" =>
        /\ SameShape(final, frame)
        /\ SameShape(cloak_mask, frame)
        /\ \A rc \in Cells(frame) :
              LET r == rc[1]
                  c == rc[2]
              IN  /\ cloak_mask.px[r][c] \in {0, 255}
                  /\ cloak_mask.px[r][c] = 255 => final.px[r][c] = bg.px[r][c]
                  /\ cloak_mask.px[r][c] = 0 => final.px[r][c] = frame.px[r][c]

\* a composited frame with a replaced cell and a kept cell, both at places
\* where background and frame differ and their sum would pass 255
C1_Witness ==
    /\ stage = "composited"
    /\ \E rc \in Cells(frame) :
          /\ cloak_mask.px[rc[1]][rc[2]] = 255
          /\ bg.px[rc[1]][rc[2]] # frame.px[rc[1]][rc[2]]
          /\ \E k \in 1..3 : bg.px[rc[1]][rc[2]][k] + frame.px[rc[1]][rc[2]][k] > 255
    /\ \E rc \in Cells(frame) :
          /\ cloak_mask.px[rc[1]][rc[2]] = 0
          /\ bg.px[rc[1]][rc[2]] # frame.px[rc[1]][rc[2]]
          /\ \E k \in 1..3 : bg.px[rc[1]][rc[2]][k] + frame.px[rc[1]][rc[2]][k] > 255

\* C4 as stated: for a solid block of any size at any place, the mask is set
\* at every cell of the block's interior.
C4_AnyBlockKeepsInterior ==
    (stage = "masked" /\ SolidBlockFrame) =>
        \A rc \in Cells(hsv) :
            InInterior(block, rc[1], rc[2]) => cloak_mask.px[rc[1]][rc[2]] = 255

\* C4 amended: for a solid block at least MinBlock (5) cells high and wide,
\* at any place, the mask is set at every cell of the block, its interior
\* included.
C4_LargeBlockKept ==
    (stage = "masked" /\ SolidBlockFrame
        /\ block.bh >= MinBlock /\ block.bw >= MinBlock) =>
        \A rc \in Cells(hsv) :
            InBlock(block, rc[1], rc[2]) => cloak_mask.px[rc[1]][rc[2]] = 255

\* a block of at least 5 by 5 cells that touches no edge of the frame, kept
\* and grown by the final dilation
C4_Witness ==
    /\ stage = "masked"
    /\ SolidBlockFrame
    /\ block.bh >= MinBlock /\ block.bw >= MinBlock
    /\ block.r0 > 1 /\ block.c0 > 1
    /\ block.r0 + block.bh - 1 < hsv.h /\ block.c0 + block.bw - 1 < hsv.w
    /\ cloak_mask.px[block.r0][block.c0] = 255
    /\ cloak_mask.px[block.r0 - 1][block.c0 - 1] = 255

\* C5: when every cell of the HSV frame lies outside the three intervals,
\* the mask has the frame's size and every cell of it is 0.
C5_OutsideGivesEmptyMask ==
    (stage = "masked" /\ \A rc \in Cells(hsv) : OutsideAll(hsv.px[rc[1]][rc[2]])) =>
        /\ SameShape(cloak_mask, hsv)
        /\ AllFalse(cloak_mask)

\* a frame of two colours outside the intervals, with a block, segmented
C5_Witness ==
    /\ stage = "masked"
    /\ block.bh > 0
    /\ \A rc \in Cells(hsv) : OutsideAll(hsv.px[rc[1]][rc[2]])
    /\ AllFalse(cloak_mask)

-----------------------------------------------------------------------------
(* Properties of the background acquirer *)

\* frame j differs from the others at the cell rc and nowhere else, and the
\* others are all the same frame
OutlierAt(fs, j, rc) ==
    LET base == fs[IF j = 1 THEN 2 ELSE 1]
    IN  /\ \A i \in 1..Len(fs) : i # j => fs[i] = base
        /\ fs[j].px[rc[1]][rc[2]] # base.px[rc[1]][rc[2]]
        /\ \A qc \in Cells(base) :
              qc # rc => fs[j].px[qc[1]][qc[2]] = base.px[qc[1]][qc[2]]

\* C2: when the n >= 3 aggregated frames are the same but for one frame that
\* differs at one cell, the written background holds at that cell the value
\* of the n - 1 frames that agree.
C2_MedianRejectsOutlier ==
    (bpc = "Stopped" /\ outFile # NoImage /\ Len(frames) >= 3) =>
        \A j \in 1..Len(frames) : \A rc \in Cells(frames[1]) :
            OutlierAt(frames, j, rc) =>
                outFile.px[rc[1]][rc[2]]
                    = frames[IF j = 1 THEN 2 ELSE 1].px[rc[1]][rc[2]]

\* a background written from an even number of frames, one of them an outlier
C2_Witness ==
    /\ bpc = "Stopped"
    /\ outFile # NoImage
    /\ Len(frames) = 4
    /\ \E j \in 1..Len(frames) : \E rc \in Cells(frames[1]) : OutlierAt(frames, j, rc)

NoReadDelivered == \A i \in 1..Len(readLog) : ~readLog[i].ok

\* C3: the step that ends a capture in which no read delivered a frame
\* reports the failure, writes no file, and leaves the acquirer waiting for a
\* key with its camera open.
C3_EmptyCaptureFailsAndWaits ==
    [][(bpc = "sampling" /\ bpc' # "sampling" /\ NoReadDelivered) =>
            /\ failures' = failures + 1
            /\ outFile = NoImage /\ outFile' = NoImage
            /\ bpc' = "loop"
            /\ bcap' = "open"]_vars

\* a capture failed, a later trigger tried again and its median was written
C3_Witness ==
    /\ failures >= 1
    /\ triggers >= 2
    /\ bpc = "Stopped"
    /\ outFile # NoImage

\* the successful reads of the log, in order
RECURSIVE Delivered(_)
Delivered(log) ==
    IF log = <<>> THEN <<>>
    ELSE IF Head(log).ok THEN <<Head(log).img>> \o Delivered(Tail(log))
    ELSE Delivered(Tail(log))

IsMirrorOf(f, src) ==
    /\ SameShape(f, src)
    /\ \A rc \in Cells(src) : f.px[rc[1]][rc[2]] = src.px[rc[1]][src.w + 1 - rc[2]]

\* C9: a capture reads at most args.frames times and, once the sampling loop
\* is over, has read exactly args.frames times; the list of frames is the
\* successful reads, each mirrored, in the order they were read.
C9_ExactlyNReads ==
    /\ Len(readLog) <= nframes
    /\ (triggers > 0 /\ bpc # "sampling") => Len(readLog) = nframes
    /\ Len(frames) <= nframes
    /\ Len(frames) = Len(Delivered(readLog))
    /\ \A i \in 1..Len(frames) : IsMirrorOf(frames[i], Delivered(readLog)[i])

\* a capture over, with a failed read between two delivered frames
C9_Witness ==
    /\ triggers > 0
    /\ bpc = "Stopped"
    /\ Len(readLog) = nframes
    /\ Len(frames) = 2
    /\ \E i \in 2..(Len(readLog) - 1) :
          /\ ~readLog[i].ok
          /\ \E a \in 1..(i - 1) : readLog[a].ok
          /\ \E z \in (i + 1)..Len(readLog) : readLog[z].ok
    /\ frames[1] # frames[2]

-----------------------------------------------------------------------------
(* Properties of the compositing session *)

\* C6: no session that has ended, by a quit key or by an error raised inside
\* the loop, leaves a writer it opened unreleased.
C6_WriterReleasedOnEveryExit ==
    pc \in {"Stopped", "Aborted"} => writer # "Open"

\* C7: every iteration of the loop that has run and left the session Running,
\* whether its read delivered a frame or not, has looked at the quit signal.
C7_EveryIterationPolls ==
    (pc = "Running" /\ ticks > 0) => polled = "yes"

\* C8: whenever compositing has run, the background it used and the frame it
\* produced (if no error kept it from producing one) have the shape of the
\* mirrored camera frame; a mismatch makes the
\* background, not the frame, take the frame's shape; and while the camera
\* has delivered frames of one shape only the background has been replaced
\* at most once.
C8_BackgroundMatchesFrame ==
    /\ [](comp # NoComp =>
            /\ comp.bg = comp.frame
            /\ comp.final \in {comp.frame, NoComp.final}
            /\ comp.frame \in shapesSeen)
    /\ [](Cardinality(shapesSeen) <= 1 => bg_resizes <= 1)
    /\ [][(okTicks' = okTicks + 1) =>
            /\ bg_shape' = comp'.frame
            /\ comp'.final = comp'.frame
            /\ last_final'.shape = comp'.frame
            /\ (bg_shape # comp'.frame <=> bg_resizes' = bg_resizes + 1)]_vars

\* a session whose background file had another shape than the camera's
\* frames: it was resized once and two frames were composited
C8_Witness ==
    /\ Cardinality(shapesSeen) = 1
    /\ bg_resizes = 1
    /\ okTicks >= 2
    /\ comp # NoComp
    /\ comp.frame[1] # comp.frame[2]

\* C10: with recording on, the writer is opened by the first iteration that
\* reads a frame and is never opened again, with the (width, height) of that
\* iteration's composited frame; each iteration that reads a frame and runs
\* to its end hands exactly one frame to the writer, the composited frame
\* of that iteration without the help text; an iteration whose read fails
\* hands over nothing; without recording no writer is opened.
C10_OneFinalFramePerTick ==
    /\ []((save /\ pc # "Aborted") =>
            /\ Len(written) = okTicks
            /\ (okTicks >= 1 <=> writer # "None")
            /\ (okTicks >= 1 =>
                    writer_size = <<written[1].shape[2], written[1].shape[1]>>))
    /\ [](~save => (writer = "None" /\ written = <<>>))
    /\ [][(save /\ okTicks' = okTicks + 1) =>
            /\ written' = Append(written, last_final')
            /\ last_final'.src = ticks'
            /\ ~last_final'.text
            /\ shown'.text
            /\ (writer # "None" => writer_size' = writer_size)]_vars
    /\ [][(ticks' = ticks + 1 /\ ~lastOk') =>
            (written' = written /\ writer' = writer)]_vars

\* a recording of two frames, the iteration between them having failed to
\* read, ended by a quit key that released the writer
C10_Witness ==
    /\ save
    /\ pc = "Stopped"
    /\ writer = "Released"
    /\ Len(written) = 2
    /\ ticks = 3
    /\ written[1].src = 1 /\ written[2].src = 3

====
